---- MODULE Spec2Model ----
(***************************************************************************)
(* A model of dnscatz' catz2nsd: the catalog zone interpreter              *)
(* (get_catz_zones), the fetcher (parse_config_catalog_zone, axfr), the    *)
(* configuration parser (parse_config), the multi-catalog validator        *)
(* (ensure_unique_zones), the zone list reader (get_current_zones) and the *)
(* reconciliation loop of main with its control commands (nsd_control).    *)
(*                                                                         *)
(* Text (zone names, pattern names, TXT values, zone list lines) is a      *)
(* tuple of one-character strings, so that stripping, lower-casing and     *)
(* regular expression matching are computed character by character.        *)
(***************************************************************************)
EXTENDS Integers, Sequences, FiniteSets, TLC

VARIABLES
    config,                 \* the configuration: a sequence of documents
    dry_run,                \* args.dry_run of the current run
    run,                    \* number of the current run of main
    pc,                     \* position of main
    exc,                    \* the exception that ended the run, or "none"
    raised_by,              \* the call of main that raised it, or ""
    keys,                   \* parse_config: names of the keys read
    zones,                  \* parse_config: catalog zones parsed so far, in dict order
    doc_i,                  \* parse_config: index of the next document of the second loop
    catalog_zones,          \* main: the list parse_config returned
    current_zone_patterns,  \* main: zone -> pattern read from the zone list
    all_new_zones,          \* main: zones seen in the catalogs
    cz_i,                   \* main: index of the catalog of the outer loop
    todo,                   \* main: zones of the current set iteration still to visit
    reported,               \* commands given to nsd_control (logged), in order
    executed,               \* commands nsd_control ran with os.system, in order
    zonelist,               \* the NSD zone list file: its lines, or NoFile
    files,                  \* the catalog zone files (caches): filename -> zone or NoFile
    master,                 \* the masters' catalogs: origin -> zone or Down
    fetch_log,              \* one record per parse_config_catalog_zone that touched file or network
    zonelist0,              \* the zone list file as it was when the run started
    prev,                   \* what the previous run ended with
    catz_in,                \* input of get_catz_zones (interpreter specification)
    catz_out,               \* its outcome; exc = "unset" before the call
    os_status,              \* what os.system returned for each executed command, in order
    files0,                 \* the catalog zone files as they were when the run started
    gen_origin,             \* generate_catalog_zone: its origin argument
    gen_zones,              \* generate_catalog_zone: its zones argument, a list of names
    procs,                  \* overlapping runs: the variables of main of each run
    overlap                 \* overlapping runs: a run started while another was under way

vars == <<config, dry_run, run, pc, exc, raised_by, keys, zones, doc_i, catalog_zones,
          current_zone_patterns, all_new_zones, cz_i, todo, reported, executed,
          zonelist, files, master, fetch_log, zonelist0, prev, catz_in, catz_out,
          os_status, files0, gen_origin, gen_zones, procs, overlap>>

\* the variables of the generator and of the overlapping runs
gen == <<gen_origin, gen_zones>>
conc == <<procs, overlap>>

(***************************************************************************)
(* Bounds of the model.                                                    *)
(***************************************************************************)
MaxDocs == 2        \* documents in a configuration
MaxNodes == 2       \* nodes in a catalog zone given to the interpreter alone
MaxRuns == 2        \* consecutive runs of main
MaxLines == 2       \* lines of a zone list file given to the reader alone
MaxZones == 3       \* names in the list of zones given to the generator

(***************************************************************************)
(* Text.                                                                   *)
(***************************************************************************)
\* a file that does not exist (FileNotFoundError on open)
NoFile == [kind |-> "NoFile"]

\* a master that does not answer the transfer
Down == [kind |-> "Down"]

\* get_catz_version's None
NoVersion == -1

Digits == {"0", "1", "2", "3", "4", "5", "6", "7", "8", "9"}
UpperLetters == {"A", "B", "C"}
LowerLetters == {"a", "b", "c", "d", "e", "g", "p", "q", "r"}
WhiteSpace == {" ", "\n", "\t"}

\* \w of Python's re, on the characters the model uses
IsWordChar(ch) == ch \in Digits \cup UpperLetters \cup LowerLetters \cup {"_"}

\* \S of Python's re
IsNonSpace(ch) == ch \notin WhiteSpace

\* \d of Python's re
IsDigit(ch) == ch \in Digits

\* str.lower(), one character
LowerChar(ch) ==
    CASE ch = "A" -> "a"
      [] ch = "B" -> "b"
      [] ch = "C" -> "c"
      [] OTHER -> ch

\* str.lower()
Lower(s) == [k \in 1..Len(s) |-> LowerChar(s[k])]

\* str.rstrip("."): every trailing dot goes
RECURSIVE RStripDot(_)
RStripDot(s) ==
    IF s # <<>> /\ s[Len(s)] = "." THEN RStripDot(SubSeq(s, 1, Len(s) - 1)) ELSE s

\* str.rstrip(): trailing white space goes
RECURSIVE RStrip(_)
RStrip(s) ==
    IF s # <<>> /\ s[Len(s)] \in WhiteSpace THEN RStrip(SubSeq(s, 1, Len(s) - 1)) ELSE s

\* str.startswith
StartsWith(s, p) == Len(s) >= Len(p) /\ SubSeq(s, 1, Len(p)) = p

DigitValue(ch) ==
    CASE ch = "0" -> 0 [] ch = "1" -> 1 [] ch = "2" -> 2 [] ch = "3" -> 3
      [] ch = "4" -> 4 [] ch = "5" -> 5 [] ch = "6" -> 6 [] ch = "7" -> 7
      [] ch = "8" -> 8 [] ch = "9" -> 9

\* int() of a string of decimal digits
RECURSIVE ParseInt(_)
ParseInt(s) ==
    IF s = <<>> THEN 0
    ELSE 10 * ParseInt(SubSeq(s, 1, Len(s) - 1)) + DigitValue(s[Len(s)])

Range(s) == {s[k] : k \in DOMAIN s}

\* the sequences over S of length at most n
SeqsUpTo(S, n) == UNION {[1..k -> S] : k \in 0..n}

(***************************************************************************)
(* The catalog zone interpreter.                                           *)
(* A zone (dns.zone.Zone) is [serial, nodes]; nodes is the sequence of the *)
(* zone's nodes in dict order, a node is [name, txt, ptr]: its relative    *)
(* name as a sequence of labels, the texts of its TXT records and the      *)
(* texts of its PTR targets, in rdataset order.                            *)
(***************************************************************************)
SUPPORTED_VERSIONS == {2}

\* get_rdataset: the node's records of one type; None, modelled as the empty
\* sequence, when it holds none (an rdataset itself is never empty)
get_rdataset(records) == records

\* an rdataset that is None
IsNone(rdataset) == rdataset = <<>>

\* re.fullmatch(r"\"(\d+)\"", str(rr)) and int() of the group, or None
get_catz_version(rr) ==
    IF /\ Len(rr) >= 3
       /\ rr[1] = "\""
       /\ rr[Len(rr)] = "\""
       /\ \A k \in 2..(Len(rr) - 1) : IsDigit(rr[k])
    THEN ParseInt(SubSeq(rr, 2, Len(rr) - 1))
    ELSE NoVersion

\* str(k).startswith(prefix + "."), on labels
LabelPrefix(name, label) == Len(name) > 1 /\ name[1] = label

\* str(k).endswith(".zones"), on labels
EndsWithZones(name) == Len(name) > 1 /\ name[Len(name)] = "zones"

\* One iteration of the loop of get_catz_zones over node v with the member
\* set acc: the exception it raises ("none": it goes on) and the new set.
CatzNode(v, acc) ==
    IF v.name = <<"version">> THEN
        LET rdataset == get_rdataset(v.txt) IN
        IF ~IsNone(rdataset) /\ get_catz_version(rdataset[1]) \notin SUPPORTED_VERSIONS
        THEN [exc |-> "CatalogZoneError", zones |-> acc]
        ELSE [exc |-> "none", zones |-> acc]
    ELSE IF LabelPrefix(v.name, "group") THEN [exc |-> "none", zones |-> acc]
    ELSE IF LabelPrefix(v.name, "coo") THEN [exc |-> "none", zones |-> acc]
    ELSE IF LabelPrefix(v.name, "serial") THEN [exc |-> "none", zones |-> acc]
    ELSE IF EndsWithZones(v.name) THEN
        LET rdataset == get_rdataset(v.ptr) IN
        IF IsNone(rdataset) THEN [exc |-> "TypeError", zones |-> acc]
        ELSE IF Len(rdataset) # 1 THEN [exc |-> "CatalogZoneError", zones |-> acc]
        ELSE [exc |-> "none", zones |-> acc \cup {RStripDot(rdataset[1])}]
    ELSE [exc |-> "none", zones |-> acc]

RECURSIVE CatzLoop(_, _, _)
CatzLoop(nodes, k, acc) ==
    IF k > Len(nodes) THEN [exc |-> "none", zones |-> acc]
    ELSE LET r == CatzNode(nodes[k], acc) IN
         IF r.exc # "none" THEN [exc |-> r.exc, zones |-> {}]
         ELSE CatzLoop(nodes, k + 1, r.zones)

\* get_catz_zones: [exc, zones]; zones is the returned set when exc = "none"
get_catz_zones(catalog_zone) == CatzLoop(catalog_zone.nodes, 1, {})

(***************************************************************************)
(* Catalog zone content the model draws its inputs from.                   *)
(***************************************************************************)
TxtNode(name, values) == [name |-> name, txt |-> values, ptr |-> <<>>]
PtrNode(name, targets) == [name |-> name, txt |-> <<>>, ptr |-> targets]
Quoted(s) == <<"\"">> \o s \o <<"\"">>

VersionNodes ==
    { TxtNode(<<"version">>, <<Quoted(<<"2">>)>>),
      TxtNode(<<"version">>, <<Quoted(<<"3">>)>>),
      TxtNode(<<"version">>, <<Quoted(<<"a">>)>>),
      TxtNode(<<"version">>, <<Quoted(<<"2">>), Quoted(<<"3">>)>>),
      TxtNode(<<"version">>, <<Quoted(<<"3">>), Quoted(<<"2">>)>>),
      TxtNode(<<"version">>, <<>>) }

MemberNodes ==
    { PtrNode(<<"u1", "zones">>, << <<"a", ".">> >>),
      PtrNode(<<"u2", "zones">>, << <<"A", ".">> >>),
      PtrNode(<<"u3", "zones">>, << <<"a", ".">>, <<"b", ".">> >>),
      TxtNode(<<"u4", "zones">>, <<Quoted(<<"g">>)>>) }

OtherNodes ==
    { TxtNode(<<"group", "u1", "zones">>, <<Quoted(<<"g">>)>>),
      TxtNode(<<"coo", "u1", "zones">>, <<>>),
      TxtNode(<<"serial", "u1", "zones">>, <<>>),
      TxtNode(<<"@">>, <<>>) }

NodeUniverse == VersionNodes \cup MemberNodes \cup OtherNodes

\* a zone's nodes are a dict: no two of them share a name
DistinctNames(nodes) ==
    \A j, k \in DOMAIN nodes : j # k => nodes[j].name # nodes[k].name

CatalogInputs ==
    { [serial |-> 1, nodes |-> n] : n \in {m \in SeqsUpTo(NodeUniverse, MaxNodes) : DistinctNames(m)} }

CatzUnset == [exc |-> "unset", zones |-> {}]

(***************************************************************************)
(* The NSD zone list file and the server that keeps it.                    *)
(* The file is [exists, lines]; a line is its text with the line break.    *)
(***************************************************************************)
AddPrefix == <<"a", "d", "d", " ">>

\* the line NSD keeps for a zone added with a pattern
AddLine(zone, pattern) == AddPrefix \o zone \o <<" ">> \o pattern \o <<"\n">>

\* "add <\S+> <\S+>": the two fields of an add line, as NSD reads its own file
SplitAdd(text) ==
    LET rest == SubSeq(text, Len(AddPrefix) + 1, Len(text))
        cut == {k \in DOMAIN rest :
                    /\ rest[k] = " "
                    /\ k > 1 /\ k < Len(rest)
                    /\ \A j \in DOMAIN rest : j # k => IsNonSpace(rest[j])}
    IN  IF StartsWith(text, AddPrefix) /\ cut # {}
        THEN LET k == CHOOSE c \in cut : TRUE
             IN  [ok |-> TRUE, zone |-> SubSeq(rest, 1, k - 1),
                  pattern |-> SubSeq(rest, k + 1, Len(rest))]
        ELSE [ok |-> FALSE, zone |-> <<>>, pattern |-> <<>>]

\* re.match(r"^add (\S+) (\w+)$", line.rstrip()): the groups, when it matches
MatchAdd(line) ==
    LET m == SplitAdd(RStrip(line))
    IN  IF m.ok /\ \A k \in DOMAIN m.pattern : IsWordChar(m.pattern[k])
        THEN m
        ELSE [ok |-> FALSE, zone |-> <<>>, pattern |-> <<>>]

\* get_current_zones over the lines from k on, res being the dict so far
RECURSIVE CurrentLoop(_, _, _)
CurrentLoop(lines, k, res) ==
    IF k > Len(lines) THEN res
    ELSE IF StartsWith(lines[k], <<"#">>) THEN CurrentLoop(lines, k + 1, res)
    ELSE LET m == MatchAdd(lines[k]) IN
         IF m.ok
         THEN CurrentLoop(lines, k + 1,
                  [z \in DOMAIN res \cup {Lower(m.zone)} |->
                      IF z = Lower(m.zone) THEN m.pattern ELSE res[z]])
         ELSE CurrentLoop(lines, k + 1, res)

\* get_current_zones: the dict zone -> pattern; empty when the file is missing
get_current_zones(file) ==
    IF file.exists THEN CurrentLoop(file.lines, 1, <<>>) ELSE <<>>

\* the lines of the file that are not the add line of zone (names compare
\* without regard to letter case, as DNS names do)
RECURSIVE WithoutZone(_, _)
WithoutZone(lines, zone) ==
    IF lines = <<>> THEN <<>>
    ELSE LET m == SplitAdd(RStrip(Head(lines)))
             rest == WithoutZone(Tail(lines), zone)
         IN  IF m.ok /\ Lower(m.zone) = Lower(zone) THEN rest ELSE <<Head(lines)>> \o rest

HasZone(file, zone) == file.exists /\ WithoutZone(file.lines, zone) # file.lines

\* os.system("nsd-control <command>"): what the server does to its zone list
ServerApply(file, command) ==
    CASE command.verb = "addzone" ->
            IF HasZone(file, command.zone) THEN file
            ELSE [exists |-> TRUE,
                  lines |-> file.lines \o <<AddLine(command.zone, command.pattern)>>]
      [] command.verb = "changezone" ->
            IF HasZone(file, command.zone)
            THEN [exists |-> TRUE,
                  lines |-> WithoutZone(file.lines, command.zone)
                            \o <<AddLine(command.zone, command.pattern)>>]
            ELSE file
      [] command.verb = "delzone" ->
            IF HasZone(file, command.zone)
            THEN [exists |-> TRUE, lines |-> WithoutZone(file.lines, command.zone)]
            ELSE file

\* the exit status of nsd-control: "ok", or "failed" when the server refuses
\* the command (a zone added twice, a zone changed or deleted that it has not)
ServerStatus(file, command) ==
    IF command.verb = "addzone"
    THEN IF HasZone(file, command.zone) THEN "failed" ELSE "ok"
    ELSE IF HasZone(file, command.zone) THEN "ok" ELSE "failed"

\* nsd_control that runs the command whatever dry_run says
nsd_control_always(command, dry, st) ==
    [reported |-> Append(st.reported, command),
     executed |-> Append(st.executed, command),
     status |-> Append(st.status, ServerStatus(st.zonelist, command)),
     zonelist |-> ServerApply(st.zonelist, command)]

\* nsd_control: the command is logged, and run unless dry_run. st is
\* [reported, executed, status, zonelist] before the call, the value the
\* same after. status is what os.system returned, call by call: the code
\* drops it, the model keeps it to tell which calls failed.
nsd_control(command, dry, st) ==
    IF dry
    THEN [reported |-> Append(st.reported, command),
          executed |-> st.executed,
          status |-> st.status,
          zonelist |-> st.zonelist]
    ELSE [reported |-> Append(st.reported, command),
          executed |-> Append(st.executed, command),
          status |-> Append(st.status, ServerStatus(st.zonelist, command)),
          zonelist |-> ServerApply(st.zonelist, command)]

(***************************************************************************)
(* The fetcher.                                                            *)
(***************************************************************************)
\* dns.xfr.make_query(zone, serial=serial, ...): builds the query message
\* from the local zone and returns it with the serial the query carries.
\* It is not given the master and sends nothing.
make_query(zone, serial) == IF serial = 0 THEN zone.serial ELSE serial

\* axfr with the cached zone (NoFile: None) and the master's answer:
\* [exc, zone, transferred]
axfr(zone, answer) ==
    IF zone # NoFile /\ zone.serial = make_query(zone, zone.serial)
    THEN [exc |-> "none", zone |-> zone, transferred |-> FALSE]
    ELSE IF answer = Down
    THEN [exc |-> "TransferError", zone |-> NoFile, transferred |-> TRUE]
    ELSE [exc |-> "none", zone |-> answer, transferred |-> TRUE]

NoCatalogZone == [origin |-> "", pattern |-> <<>>, zones |-> {}]

\* The outcome of interpreting a fetched zone as catalog name with its pattern
Interpreted(zone_dict, zone, fs, entry) ==
    LET r == get_catz_zones(zone) IN
    [exc |-> r.exc,
     cz |-> IF r.exc = "none"
            THEN [origin |-> zone_dict.name, pattern |-> zone_dict.pattern, zones |-> r.zones]
            ELSE NoCatalogZone,
     files |-> fs,
     log |-> <<entry>>]

Raised(name, fs, log) == [exc |-> name, cz |-> NoCatalogZone, files |-> fs, log |-> log]

\* parse_config_catalog_zone: [exc, cz, files, log]: the exception or the
\* CatalogZone, the zone files after the call, and what the call did with
\* the zone file and the network
parse_config_catalog_zone(zone_dict, ks, fs, ms) ==
    IF zone_dict.xfr # "" THEN
        IF zone_dict.xfr # "NOKEY" /\ zone_dict.xfr \notin ks
        THEN Raised("KeyError", fs, <<>>)
        ELSE LET cached == IF zone_dict.zonefile # "" THEN fs[zone_dict.zonefile] ELSE NoFile
                 got == axfr(cached, ms[zone_dict.name])
                 fs2 == IF got.exc = "none" /\ zone_dict.zonefile # ""
                        THEN [fs EXCEPT ![zone_dict.zonefile] = got.zone]
                        ELSE fs
                 entry == [origin |-> zone_dict.name,
                           xfr |-> TRUE,
                           cache_read |-> zone_dict.zonefile # "",
                           cached |-> cached,
                           answer |-> ms[zone_dict.name],
                           transferred |-> got.transferred,
                           returned |-> got.zone,
                           cache_written |-> got.exc = "none" /\ zone_dict.zonefile # "",
                           cache_after |-> IF zone_dict.zonefile # ""
                                           THEN fs2[zone_dict.zonefile] ELSE NoFile]
             IN  IF got.exc # "none" THEN Raised(got.exc, fs2, <<entry>>)
                 ELSE Interpreted(zone_dict, got.zone, fs2, entry)
    ELSE IF zone_dict.zonefile # "" THEN
        LET zone == fs[zone_dict.zonefile]
            entry == [origin |-> zone_dict.name,
                      xfr |-> FALSE,
                      cache_read |-> TRUE,
                      cached |-> zone,
                      answer |-> Down,
                      transferred |-> FALSE,
                      returned |-> zone,
                      cache_written |-> FALSE,
                      cache_after |-> zone]
        IN  IF zone = NoFile THEN Raised("FileNotFoundError", fs, <<entry>>)
            ELSE Interpreted(zone_dict, zone, fs, entry)
    ELSE Raised("InvalidConfigurationError", fs, <<>>)

(***************************************************************************)
(* The validator.                                                          *)
(***************************************************************************)
\* zone2catalogs[zone]: the origins of the catalogs that list the zone
zone2catalogs(cat, zone) == {cat[k].origin : k \in {j \in DOMAIN cat : zone \in cat[j].zones}}

AllZones(cat) == UNION {cat[k].zones : k \in DOMAIN cat}

\* UniqueErrors with the threshold off by one: an error only from three catalogs on
UniqueErrors_three(cat) ==
    Cardinality({z \in AllZones(cat) : Cardinality(zone2catalogs(cat, z)) > 2})

\* the number of errors ensure_unique_zones logs
UniqueErrors(cat) == Cardinality({z \in AllZones(cat) : Cardinality(zone2catalogs(cat, z)) > 1})

\* ensure_unique_zones that logs the errors and does not raise
ensure_unique_zones_logged(cat) == "none"

\* ensure_unique_zones: the exception it raises, or "none"
ensure_unique_zones(cat) ==
    IF UniqueErrors(cat) > 0 THEN "InvalidConfigurationError" ELSE "none"

(***************************************************************************)
(* The configuration parser.                                               *)
(* A document is [type, name, pattern, xfr, zonefile]: xfr is the key name *)
(* of request-xfr ("NOKEY", or "" without request-xfr), zonefile the file  *)
(* name ("" without zonefile).                                             *)
(***************************************************************************)
\* the first loop of parse_config, from document k on: [exc, keys]
RECURSIVE KeysLoop(_, _, _)
KeysLoop(docs, k, ks) ==
    IF k > Len(docs) THEN [exc |-> "none", keys |-> ks]
    ELSE IF docs[k].type = "key"
    THEN IF docs[k].name \in ks
         THEN [exc |-> "InvalidConfigurationError", keys |-> ks]
         ELSE KeysLoop(docs, k + 1, ks \cup {docs[k].name})
    ELSE KeysLoop(docs, k + 1, ks)

\* name in zones
InZones(zs, name) == \E k \in DOMAIN zs : zs[k].origin = name

\* zones[catalog_zone.origin] = catalog_zone
PutZone(zs, cz) == Append(zs, cz)

(***************************************************************************)
(* main: the reconciliation loop.                                          *)
(***************************************************************************)
NoCommand == [verb |-> "none", zone |-> <<>>, pattern |-> <<>>]

\* the body of the inner loop of main for a zone of a catalog with pattern:
\* the command it gives to nsd_control, or NoCommand
ZoneCommand(zone, pattern, cur) ==
    IF zone \notin DOMAIN cur
    THEN [verb |-> "addzone", zone |-> zone, pattern |-> pattern]
    ELSE IF pattern # cur[zone]
    THEN [verb |-> "changezone", zone |-> zone, pattern |-> pattern]
    ELSE NoCommand

\* del_zones with the subtraction lost: every current zone is deleted
del_zones_all(current_zones, new_zones) == current_zones

\* del_zones = current_zones - all_new_zones
del_zones(current_zones, new_zones) == current_zones \ new_zones

DelCommand(zone) == [verb |-> "delzone", zone |-> zone, pattern |-> <<>>]

\* the first catalog from index k on that has a zone to visit, or Len + 1
RECURSIVE NextCz(_, _)
NextCz(cat, k) ==
    IF k > Len(cat) THEN k
    ELSE IF cat[k].zones # {} THEN k
    ELSE NextCz(cat, k + 1)

\* Where main stands once the catalogs before index k are done: in the
\* catalog loop, in the delete loop, or done.
Position(cat, k, cur, new_zones) ==
    LET j == NextCz(cat, k)
        dz == del_zones(DOMAIN cur, new_zones)
    IN  IF j <= Len(cat) THEN [pc |-> "reconcile", cz_i |-> j, todo |-> cat[j].zones]
        ELSE IF dz # {} THEN [pc |-> "delete", cz_i |-> j, todo |-> dz]
        ELSE [pc |-> "done", cz_i |-> j, todo |-> {}]

(***************************************************************************)
(* The inputs of a run.                                                    *)
(***************************************************************************)
Origins == {"c1", "c2"}
FileNames == {"f1", "f2"}

DocUniverse ==
    { [type |-> "key", name |-> "k1", pattern |-> <<>>, xfr |-> "", zonefile |-> ""],
      [type |-> "catalog-zone", name |-> "c1", pattern |-> <<"p">>,
       xfr |-> "NOKEY", zonefile |-> "f1"],
      [type |-> "catalog-zone", name |-> "c2", pattern |-> <<"r", "-", "1">>,
       xfr |-> "", zonefile |-> "f2"],
      [type |-> "catalog-zone", name |-> "c2", pattern |-> <<"q">>,
       xfr |-> "k1", zonefile |-> ""] }

V2Node == TxtNode(<<"version">>, <<Quoted(<<"2">>)>>)

RunNodeLists ==
    { <<V2Node, PtrNode(<<"u1", "zones">>, << <<"a", ".">> >>)>>,
      <<V2Node, PtrNode(<<"u1", "zones">>, << <<"a", ".">> >>),
                PtrNode(<<"u5", "zones">>, << <<"b", ".">> >>)>>,
      <<V2Node, PtrNode(<<"u2", "zones">>, << <<"A", ".">> >>)>>,
      <<PtrNode(<<"u1", "zones">>, << <<"a", ".">> >>),
        TxtNode(<<"version">>, <<Quoted(<<"3">>)>>)>>,
      <<V2Node, TxtNode(<<"u4", "zones">>, <<Quoted(<<"g">>)>>)>> }

\* what a master serves, at its current serial
MasterZones == {[serial |-> 2, nodes |-> l] : l \in RunNodeLists}

\* what a master served at an earlier serial
OldZones == {[serial |-> 1, nodes |-> <<V2Node, PtrNode(<<"u1", "zones">>, << <<"a", ".">> >>)>>]}

ZoneLists ==
    { [exists |-> FALSE, lines |-> <<>>],
      [exists |-> TRUE, lines |-> <<AddLine(<<"a">>, <<"p">>)>>],
      [exists |-> TRUE,
       lines |-> << <<"#", " ", "c", "\n">>,
                    AddLine(<<"b">>, <<"q">>),
                    AddLine(<<"c">>, <<"q">>),
                    <<"g", "a", "r", "b", "a", "g", "e", "\n">> >>],
      [exists |-> TRUE,
       lines |-> <<AddLine(<<"A">>, <<"p">>), AddLine(<<"b">>, <<"r", "-", "1">>)>>] }

\* A master or a file no document names plays no part: it is left absent.
\* A cached zone is an earlier transfer from the master: an older serial, or
\* the master's zone itself.
InputsFit(cfg, ms, fs) ==
    /\ \A o \in Origins :
          (\A k \in DOMAIN cfg : ~(cfg[k].name = o /\ cfg[k].xfr # "")) => ms[o] = Down
    /\ \A f \in FileNames :
          (\A k \in DOMAIN cfg : cfg[k].zonefile # f) => fs[f] = NoFile
    /\ \A k \in DOMAIN cfg :
          IF cfg[k].zonefile = "" THEN TRUE
          ELSE LET c == fs[cfg[k].zonefile]
                   m == ms[cfg[k].name]
               IN  IF cfg[k].xfr = "" THEN c \notin OldZones
                   ELSE IF c = NoFile \/ c = m THEN TRUE
                   ELSE IF m = Down THEN c \in OldZones
                   ELSE c.serial < m.serial

\* the generator and the overlapping runs take no part
GenIdle == gen_origin = <<>> /\ gen_zones = <<>>
ConcIdle == procs = <<>> /\ overlap = FALSE

NoPrev == [done |-> FALSE, dry_run |-> FALSE, catalog_zones |-> <<>>]

\* the variables of a run of main as the run starts
RunStart ==
    /\ pc = "parse_keys"
    /\ exc = "none"
    /\ raised_by = ""
    /\ keys = {}
    /\ zones = <<>>
    /\ doc_i = 1
    /\ catalog_zones = <<>>
    /\ current_zone_patterns = <<>>
    /\ all_new_zones = {}
    /\ cz_i = 1
    /\ todo = {}
    /\ reported = <<>>
    /\ executed = <<>>
    /\ os_status = <<>>
    /\ fetch_log = <<>>

Init ==
    /\ config \in SeqsUpTo(DocUniverse, MaxDocs)
    /\ dry_run \in BOOLEAN
    /\ run = 1
    /\ RunStart
    /\ zonelist \in ZoneLists
    /\ zonelist0 = zonelist
    /\ master \in [Origins -> MasterZones \cup {Down}]
    /\ files \in [FileNames -> MasterZones \cup OldZones \cup {NoFile}]
    /\ InputsFit(config, master, files)
    /\ prev = NoPrev
    /\ files0 = files
    /\ catz_in = [serial |-> 1, nodes |-> <<>>]
    /\ catz_out = CatzUnset
    /\ GenIdle
    /\ ConcIdle

(***************************************************************************)
(* The steps of a run.                                                     *)
(***************************************************************************)
\* parse_config, first loop: the keys
ParseKeys ==
    /\ pc = "parse_keys"
    /\ LET r == KeysLoop(config, 1, {}) IN
       /\ keys' = r.keys
       /\ exc' = r.exc
       /\ raised_by' = IF r.exc = "none" THEN "" ELSE "parse_config"
       /\ pc' = IF r.exc = "none" THEN "parse_zones" ELSE "aborted"
    /\ UNCHANGED <<config, dry_run, run, zones, doc_i, catalog_zones,
                   current_zone_patterns, all_new_zones, cz_i, todo, reported,
                   executed, zonelist, files, master, fetch_log, zonelist0, prev,
                   catz_in, catz_out,
                   gen, conc, files0, os_status>>

\* parse_config, second loop: one document
ParseDoc ==
    /\ pc = "parse_zones"
    /\ doc_i <= Len(config)
    /\ LET zone_dict == config[doc_i] IN
       IF zone_dict.type # "catalog-zone"
       THEN /\ doc_i' = doc_i + 1
            /\ UNCHANGED <<pc, exc, raised_by, zones, files, fetch_log>>
       ELSE IF InZones(zones, zone_dict.name)
       THEN /\ pc' = "aborted"
            /\ exc' = "InvalidConfigurationError"
            /\ raised_by' = "parse_config"
            /\ UNCHANGED <<doc_i, zones, files, fetch_log>>
       ELSE LET r == parse_config_catalog_zone(zone_dict, keys, files, master) IN
            /\ files' = r.files
            /\ fetch_log' = fetch_log \o r.log
            /\ exc' = r.exc
            /\ IF r.exc = "none"
               THEN /\ zones' = PutZone(zones, r.cz)
                    /\ doc_i' = doc_i + 1
                    /\ UNCHANGED <<pc, raised_by>>
               ELSE /\ pc' = "aborted"
                    /\ raised_by' = "parse_config"
                    /\ UNCHANGED <<zones, doc_i>>
    /\ UNCHANGED <<config, dry_run, run, keys, catalog_zones,
                   current_zone_patterns, all_new_zones, cz_i, todo, reported,
                   executed, zonelist, master, zonelist0, prev, catz_in, catz_out,
                   gen, conc, files0, os_status>>

\* parse_config returns zones.values(); main gives them to ensure_unique_zones
EnsureUniqueZones ==
    /\ pc = "parse_zones"
    /\ doc_i > Len(config)
    /\ catalog_zones' = zones
    /\ exc' = ensure_unique_zones(zones)
    /\ raised_by' = IF ensure_unique_zones(zones) = "none" THEN "" ELSE "ensure_unique_zones"
    /\ pc' = IF ensure_unique_zones(zones) = "none" THEN "current" ELSE "aborted"
    /\ UNCHANGED <<config, dry_run, run, keys, zones, doc_i,
                   current_zone_patterns, all_new_zones, cz_i, todo, reported,
                   executed, zonelist, files, master, fetch_log, zonelist0, prev,
                   catz_in, catz_out,
                   gen, conc, files0, os_status>>

\* main reads the zone list and enters its loops
GetCurrentZones ==
    /\ pc = "current"
    /\ LET cur == get_current_zones(zonelist)
           at == Position(catalog_zones, 1, cur, {})
       IN  /\ current_zone_patterns' = cur
           /\ pc' = at.pc
           /\ cz_i' = at.cz_i
           /\ todo' = at.todo
    /\ UNCHANGED <<config, dry_run, run, exc, raised_by, keys, zones, doc_i, catalog_zones,
                   all_new_zones, reported, executed, zonelist, files, master,
                   fetch_log, zonelist0, prev, catz_in, catz_out,
                   gen, conc, files0, os_status>>

\* main gives command (or nothing, for NoCommand) to nsd_control
Control(command) ==
    LET st == [reported |-> reported, executed |-> executed, status |-> os_status,
               zonelist |-> zonelist]
        r == IF command = NoCommand THEN st ELSE nsd_control(command, dry_run, st)
    IN  /\ reported' = r.reported
        /\ executed' = r.executed
        /\ os_status' = r.status
        /\ zonelist' = r.zonelist

\* one iteration of the inner loop of main: a zone of catalog cz_i, the zones
\* of a set coming in any order
ReconcileZone ==
    /\ pc = "reconcile"
    /\ \E zone \in todo :
          LET cz == catalog_zones[cz_i]
              new_zones == all_new_zones \cup {zone}
              at == IF todo = {zone}
                    THEN Position(catalog_zones, cz_i + 1, current_zone_patterns, new_zones)
                    ELSE [pc |-> "reconcile", cz_i |-> cz_i, todo |-> todo \ {zone}]
          IN  /\ Control(ZoneCommand(zone, cz.pattern, current_zone_patterns))
              /\ all_new_zones' = new_zones
              /\ pc' = at.pc
              /\ cz_i' = at.cz_i
              /\ todo' = at.todo
    /\ UNCHANGED <<config, dry_run, run, exc, raised_by, keys, zones, doc_i, catalog_zones,
                   current_zone_patterns, files, master, fetch_log, zonelist0, prev,
                   catz_in, catz_out,
                   gen, conc, files0>>

\* one iteration of the delete loop of main
DeleteZone ==
    /\ pc = "delete"
    /\ \E zone \in todo :
          /\ Control(DelCommand(zone))
          /\ todo' = todo \ {zone}
          /\ pc' = IF todo = {zone} THEN "done" ELSE "delete"
    /\ UNCHANGED <<config, dry_run, run, exc, raised_by, keys, zones, doc_i, catalog_zones,
                   current_zone_patterns, all_new_zones, cz_i, files, master,
                   fetch_log, zonelist0, prev, catz_in, catz_out,
                   gen, conc, files0>>

\* main is started again, with the same configuration, once a run is over
NextRun ==
    /\ pc = "done"
    /\ run < MaxRuns
    /\ run' = run + 1
    /\ dry_run' \in BOOLEAN
    /\ prev' = [done |-> TRUE, dry_run |-> dry_run, catalog_zones |-> catalog_zones]
    /\ zonelist0' = zonelist
    /\ pc' = "parse_keys"
    /\ exc' = "none"
    /\ raised_by' = ""
    /\ keys' = {}
    /\ zones' = <<>>
    /\ doc_i' = 1
    /\ catalog_zones' = <<>>
    /\ current_zone_patterns' = <<>>
    /\ all_new_zones' = {}
    /\ cz_i' = 1
    /\ todo' = {}
    /\ reported' = <<>>
    /\ executed' = <<>>
    /\ fetch_log' = <<>>
    /\ os_status' = <<>>
    /\ files0' = files
    /\ UNCHANGED <<config, zonelist, files, master, catz_in, catz_out,
                   gen, conc>>

Next ==
    \/ ParseKeys
    \/ ParseDoc
    \/ EnsureUniqueZones
    \/ GetCurrentZones
    \/ ReconcileZone
    \/ DeleteZone
    \/ NextRun

Spec == Init /\ [][Next]_vars

(***************************************************************************)
(* What a run of main lets its caller see: its log and its exit status.    *)
(***************************************************************************)
\* the lines nsd_control writes to the log, one for each command it is given
ControlLog(commands, dry) ==
    [k \in DOMAIN commands |->
        [level |-> "debug",
         text |-> IF dry THEN "DRY-RUN: nsd-control" ELSE "EXEC: nsd-control",
         command |-> commands[k]]]

\* the exit status of main: sys.exit(-1) after logging a configuration or
\* catalog error, a traceback for any other exception, 0 at the end
ExitStatus(at, e) ==
    IF at = "done" THEN "0"
    ELSE IF e \in {"InvalidConfigurationError", "CatalogZoneError"} THEN "-1"
    ELSE "1"

(***************************************************************************)
(* The interpreter alone: get_catz_zones applied to a catalog zone.        *)
(***************************************************************************)
InitCatz ==
    /\ config = <<>>
    /\ dry_run = TRUE
    /\ run = 1
    /\ RunStart
    /\ zonelist = [exists |-> FALSE, lines |-> <<>>]
    /\ zonelist0 = zonelist
    /\ master = [o \in Origins |-> Down]
    /\ files = [f \in FileNames |-> NoFile]
    /\ prev = NoPrev
    /\ files0 = files
    /\ catz_in \in CatalogInputs
    /\ catz_out = CatzUnset
    /\ GenIdle
    /\ ConcIdle

Interpret ==
    /\ catz_out = CatzUnset
    /\ catz_out' = get_catz_zones(catz_in)
    /\ UNCHANGED <<config, dry_run, run, pc, exc, raised_by, keys, zones, doc_i, catalog_zones,
                   current_zone_patterns, all_new_zones, cz_i, todo, reported,
                   executed, zonelist, files, master, fetch_log, zonelist0, prev,
                   catz_in,
                   gen, conc, files0, os_status>>

NextCatz == Interpret

SpecCatz == InitCatz /\ [][NextCatz]_vars

(***************************************************************************)
(* The reader alone: get_current_zones applied to a zone list file.        *)
(***************************************************************************)
\* the names the emitter gives addzone: member zones as the catalogs spell
\* them, and the patterns of the configuration
EmittedZones == {<<"a">>, <<"A">>, <<"b">>}
EmittedPatterns == {<<"p">>, <<"q">>, <<"r", "-", "1">>}

\* the lines of a zone list: what the server keeps for an addzone, a
\* comment, and a line of another shape
ZoneListLines ==
    {AddLine(z, p) : z \in EmittedZones, p \in EmittedPatterns}
        \cup {<<"#", " ", "c", "\n">>, <<"g", "\n">>}

ZoneListInputs ==
    {[exists |-> FALSE, lines |-> <<>>]}
        \cup {[exists |-> TRUE, lines |-> l] : l \in SeqsUpTo(ZoneListLines, MaxLines)}

InitCurrent ==
    /\ config = <<>>
    /\ dry_run = TRUE
    /\ run = 1
    /\ pc = "zone_list"
    /\ exc = "none"
    /\ raised_by = ""
    /\ keys = {}
    /\ zones = <<>>
    /\ doc_i = 1
    /\ catalog_zones = <<>>
    /\ current_zone_patterns = <<>>
    /\ all_new_zones = {}
    /\ cz_i = 1
    /\ todo = {}
    /\ reported = <<>>
    /\ executed = <<>>
    /\ os_status = <<>>
    /\ fetch_log = <<>>
    /\ zonelist \in ZoneListInputs
    /\ zonelist0 = zonelist
    /\ master = [o \in Origins |-> Down]
    /\ files = [f \in FileNames |-> NoFile]
    /\ files0 = files
    /\ prev = NoPrev
    /\ catz_in = [serial |-> 1, nodes |-> <<>>]
    /\ catz_out = CatzUnset
    /\ GenIdle
    /\ ConcIdle

ReadZoneList ==
    /\ pc = "zone_list"
    /\ current_zone_patterns' = get_current_zones(zonelist)
    /\ pc' = "zone_list_read"
    /\ UNCHANGED <<config, dry_run, run, exc, raised_by, keys, zones, doc_i, catalog_zones,
                   all_new_zones, cz_i, todo, reported, executed, zonelist, files,
                   master, fetch_log, zonelist0, prev, catz_in, catz_out, gen, conc,
                   files0, os_status>>

NextCurrent == ReadZoneList

SpecCurrent == InitCurrent /\ [][NextCurrent]_vars

(***************************************************************************)
(* The generator, and its round trip through the interpreter.              *)
(* The generated text is the sequence of its records, a record being       *)
(* [owner, rdtype, rdata]: owner is the labels written before the origin   *)
(* (none for the origin itself), rdata the text after the type.            *)
(***************************************************************************)
CATZ_VERSION == 2

\* str() of a number of one digit
DigitStr(n) == CHOOSE c \in Digits : DigitValue(c) = n

\* uuid.uuid5(uuid.NAMESPACE_DNS, zone) as a label: a hash of the text as it
\* is given, letter case included; different texts give different labels
uuid5(zone) ==
    CASE zone = <<"a", ".">> -> "u1"
      [] zone = <<"A", ".">> -> "u2"
      [] zone = <<"b", ".">> -> "u5"

\* if not zone.endswith("."): zone += "."
WithDot(zone) ==
    IF zone # <<>> /\ zone[Len(zone)] = "." THEN zone ELSE zone \o <<".">>

\* the loop over zones: one PTR record for each name of the list
RECURSIVE ZoneRecords(_, _)
ZoneRecords(zs, k) ==
    IF k > Len(zs) THEN <<>>
    ELSE LET zone == WithDot(zs[k])
             zone_id == uuid5(zone)
         IN  <<[owner |-> <<zone_id, "zones">>, rdtype |-> "PTR", rdata |-> zone]>>
                 \o ZoneRecords(zs, k + 1)

\* generate_catalog_zone(origin, zones): the text it returns
generate_catalog_zone(origin, zs) ==
    [origin |-> origin,
     records |->
        << [owner |-> <<>>, rdtype |-> "SOA", rdata |-> <<>>],
           [owner |-> <<>>, rdtype |-> "NS", rdata |-> <<>>],
           [owner |-> <<"version">>, rdtype |-> "TXT",
            rdata |-> Quoted(<<DigitStr(CATZ_VERSION)>>)] >>
            \o ZoneRecords(zs, 1)]

\* an rdataset with one more record: a record it holds already is not
\* added again (names compare without regard to letter case)
AddRdata(rdataset, rdata) ==
    IF \E k \in DOMAIN rdataset : Lower(rdataset[k]) = Lower(rdata)
    THEN rdataset
    ELSE Append(rdataset, rdata)

\* the node of a record read at the owner name, rec being one more record
NodeWith(node, rec) ==
    [name |-> node.name,
     txt |-> IF rec.rdtype = "TXT" THEN AddRdata(node.txt, rec.rdata) ELSE node.txt,
     ptr |-> IF rec.rdtype = "PTR" THEN AddRdata(node.ptr, rec.rdata) ELSE node.ptr]

\* dns.zone.from_text over the records from k on: the nodes in the order
\* their owner names first appear, names relative to the origin
RECURSIVE ReadRecords(_, _, _)
ReadRecords(records, k, nodes) ==
    IF k > Len(records) THEN nodes
    ELSE LET rec == records[k]
             name == IF rec.owner = <<>> THEN <<"@">> ELSE rec.owner
             at == {j \in DOMAIN nodes : nodes[j].name = name}
         IN  IF at = {}
             THEN ReadRecords(records, k + 1,
                      Append(nodes, NodeWith([name |-> name, txt |-> <<>>, ptr |-> <<>>], rec)))
             ELSE ReadRecords(records, k + 1,
                      [j \in DOMAIN nodes |->
                          IF j \in at THEN NodeWith(nodes[j], rec) ELSE nodes[j]])

\* dns.zone.from_text(contents, origin=origin)
from_text(contents, origin) ==
    [serial |-> 1, nodes |-> ReadRecords(contents.records, 1, <<>>)]

GenOrigins == {<<"c", ".">>, <<"d", ".">>}
GenZoneNames == {<<"a">>, <<"a", ".">>, <<"A">>, <<"b">>}

InitRoundTrip ==
    /\ config = <<>>
    /\ dry_run = TRUE
    /\ run = 1
    /\ RunStart
    /\ zonelist = [exists |-> FALSE, lines |-> <<>>]
    /\ zonelist0 = zonelist
    /\ master = [o \in Origins |-> Down]
    /\ files = [f \in FileNames |-> NoFile]
    /\ files0 = files
    /\ prev = NoPrev
    /\ catz_in = [serial |-> 1, nodes |-> <<>>]
    /\ catz_out = CatzUnset
    /\ gen_origin \in GenOrigins
    /\ gen_zones \in SeqsUpTo(GenZoneNames, MaxZones)
    /\ ConcIdle

\* the generated zone is parsed and given to the interpreter
RoundTrip ==
    /\ catz_out = CatzUnset
    /\ catz_in' = from_text(generate_catalog_zone(gen_origin, gen_zones), gen_origin)
    /\ catz_out' = get_catz_zones(catz_in')
    /\ UNCHANGED <<config, dry_run, run, pc, exc, raised_by, keys, zones, doc_i, catalog_zones,
                   current_zone_patterns, all_new_zones, cz_i, todo, reported,
                   executed, zonelist, files, master, fetch_log, zonelist0, prev,
                   gen, conc, files0, os_status>>

NextRoundTrip == RoundTrip

SpecRoundTrip == InitRoundTrip /\ [][NextRoundTrip]_vars

(***************************************************************************)
(* Two runs of main at once, on one configuration, one zone list and one   *)
(* server. Nothing in main locks: the steps of the two runs interleave.    *)
(* procs[p] holds the variables of run p; the zone list, the catalog zone  *)
(* files and the server's record of executed commands are shared.          *)
(***************************************************************************)
Procs == {1, 2}

\* the second loop of parse_config from document k on: [exc, zones, files]
RECURSIVE ZonesLoop(_, _, _, _, _, _)
ZonesLoop(docs, k, ks, zs, fs, ms) ==
    IF k > Len(docs) THEN [exc |-> "none", zones |-> zs, files |-> fs]
    ELSE IF docs[k].type # "catalog-zone" THEN ZonesLoop(docs, k + 1, ks, zs, fs, ms)
    ELSE IF InZones(zs, docs[k].name)
    THEN [exc |-> "InvalidConfigurationError", zones |-> zs, files |-> fs]
    ELSE LET r == parse_config_catalog_zone(docs[k], ks, fs, ms) IN
         IF r.exc = "none"
         THEN ZonesLoop(docs, k + 1, ks, PutZone(zs, r.cz), r.files, ms)
         ELSE [exc |-> r.exc, zones |-> zs, files |-> r.files]

\* parse_config: [exc, zones, files]
parse_config(docs, fs, ms) ==
    LET kr == KeysLoop(docs, 1, {}) IN
    IF kr.exc # "none" THEN [exc |-> kr.exc, zones |-> <<>>, files |-> fs]
    ELSE ZonesLoop(docs, 1, kr.keys, <<>>, fs, ms)

\* a run that has not started
IdleProc ==
    [pc |-> "idle", exc |-> "none", catalog_zones |-> <<>>,
     current_zone_patterns |-> <<>>, all_new_zones |-> {}, cz_i |-> 1,
     todo |-> {}, reported |-> <<>>]

\* a run that has started and has not ended
UnderWay(q) == procs[q].pc \in {"current", "reconcile", "delete"}

InitTwo ==
    /\ config \in SeqsUpTo(DocUniverse, MaxDocs)
    /\ dry_run = FALSE
    /\ run = 1
    /\ RunStart
    /\ zonelist \in ZoneLists
    /\ zonelist0 = zonelist
    /\ master \in [Origins -> MasterZones \cup {Down}]
    /\ files \in [FileNames -> MasterZones \cup OldZones \cup {NoFile}]
    /\ InputsFit(config, master, files)
    /\ files0 = files
    /\ prev = NoPrev
    /\ catz_in = [serial |-> 1, nodes |-> <<>>]
    /\ catz_out = CatzUnset
    /\ GenIdle
    /\ procs = [p \in Procs |-> IdleProc]
    /\ overlap = FALSE

\* what the steps of the two runs leave alone
TwoFrame ==
    UNCHANGED <<config, dry_run, run, pc, exc, raised_by, keys, zones, doc_i, catalog_zones,
                current_zone_patterns, all_new_zones, cz_i, todo, reported, master,
                fetch_log, zonelist0, prev, catz_in, catz_out, gen, files0>>

\* run p starts: parse_config, then ensure_unique_zones
StartRun(p) ==
    /\ procs[p].pc = "idle"
    /\ LET r == parse_config(config, files, master)
           e == IF r.exc = "none" THEN ensure_unique_zones(r.zones) ELSE r.exc
       IN  /\ files' = r.files
           /\ procs' = [procs EXCEPT ![p] =
                  [IdleProc EXCEPT !.pc = IF e = "none" THEN "current" ELSE "aborted",
                                   !.exc = e,
                                   !.catalog_zones = r.zones]]
    /\ overlap' = (overlap \/ \E q \in Procs \ {p} : UnderWay(q))
    /\ UNCHANGED <<zonelist, executed, os_status>>
    /\ TwoFrame

\* run p reads the zone list and enters its loops
ReadCurrent(p) ==
    /\ procs[p].pc = "current"
    /\ LET cur == get_current_zones(zonelist)
           at == Position(procs[p].catalog_zones, 1, cur, {})
       IN  procs' = [procs EXCEPT ![p].current_zone_patterns = cur,
                                  ![p].pc = at.pc,
                                  ![p].cz_i = at.cz_i,
                                  ![p].todo = at.todo]
    /\ UNCHANGED <<zonelist, files, executed, os_status, overlap>>
    /\ TwoFrame

\* run p gives command (or nothing, for NoCommand) to nsd_control: the
\* run's own variables after the call being next
ControlBy(p, command, next) ==
    LET st == [reported |-> procs[p].reported, executed |-> executed,
               status |-> os_status, zonelist |-> zonelist]
        r == IF command = NoCommand THEN st ELSE nsd_control(command, dry_run, st)
    IN  /\ procs' = [procs EXCEPT ![p] = [next EXCEPT !.reported = r.reported]]
        /\ executed' = r.executed
        /\ os_status' = r.status
        /\ zonelist' = r.zonelist

\* one iteration of the inner loop of run p
ReconcileBy(p) ==
    /\ procs[p].pc = "reconcile"
    /\ \E zone \in procs[p].todo :
          LET me == procs[p]
              cz == me.catalog_zones[me.cz_i]
              new_zones == me.all_new_zones \cup {zone}
              at == IF me.todo = {zone}
                    THEN Position(me.catalog_zones, me.cz_i + 1,
                                  me.current_zone_patterns, new_zones)
                    ELSE [pc |-> "reconcile", cz_i |-> me.cz_i, todo |-> me.todo \ {zone}]
          IN  ControlBy(p, ZoneCommand(zone, cz.pattern, me.current_zone_patterns),
                        [me EXCEPT !.all_new_zones = new_zones,
                                   !.pc = at.pc,
                                   !.cz_i = at.cz_i,
                                   !.todo = at.todo])
    /\ UNCHANGED <<files, overlap>>
    /\ TwoFrame

\* one iteration of the delete loop of run p
DeleteBy(p) ==
    /\ procs[p].pc = "delete"
    /\ \E zone \in procs[p].todo :
          ControlBy(p, DelCommand(zone),
                    [procs[p] EXCEPT !.todo = procs[p].todo \ {zone},
                                     !.pc = IF procs[p].todo = {zone}
                                            THEN "done" ELSE "delete"])
    /\ UNCHANGED <<files, overlap>>
    /\ TwoFrame

NextTwo ==
    \E p \in Procs :
        \/ StartRun(p)
        \/ ReadCurrent(p)
        \/ ReconcileBy(p)
        \/ DeleteBy(p)

SpecTwo == InitTwo /\ [][NextTwo]_vars

(***************************************************************************)
(* What the claims speak of.                                               *)
(***************************************************************************)
\* the desired state: each member zone with the pattern of its catalog
Desired(cat) ==
    [z \in AllZones(cat) |-> cat[CHOOSE k \in DOMAIN cat : z \in cat[k].zones].pattern]

\* a zone listed by two catalogs of different origins
DuplicateZone(cat) ==
    \E j, k \in DOMAIN cat :
        cat[j].origin # cat[k].origin /\ cat[j].zones \cap cat[k].zones # {}

\* the operation the four cases of the reconciler give a zone: a sequence
\* of one command, or of none for a zone that needs nothing
Expected(z, des, cur) ==
    IF z \in DOMAIN des /\ z \notin DOMAIN cur
    THEN <<[verb |-> "addzone", zone |-> z, pattern |-> des[z]]>>
    ELSE IF z \in DOMAIN des /\ z \in DOMAIN cur /\ des[z] # cur[z]
    THEN <<[verb |-> "changezone", zone |-> z, pattern |-> des[z]]>>
    ELSE IF z \in DOMAIN des /\ z \in DOMAIN cur
    THEN <<>>
    ELSE <<[verb |-> "delzone", zone |-> z, pattern |-> <<>>]>>

\* the places of log that hold a command naming zone z
CommandsFor(log, z) == {k \in DOMAIN log : log[k].zone = z}

HasVerb(log, verb) == \E k \in DOMAIN log : log[k].verb = verb

InLoops == pc \in {"reconcile", "delete", "done"}

\* C1: past validation, every command reported names a zone of desired or
\* current; a zone of desired or current has had no command yet or the one
\* command of its case (add, change, delete; none when nothing changes);
\* and when the run is done every zone has had exactly that.
C1_ReconcilePartition ==
    InLoops =>
        LET des == Desired(catalog_zones)
            cur == current_zone_patterns
            all == DOMAIN des \cup DOMAIN cur
        IN  /\ \A k \in DOMAIN reported : reported[k].zone \in all
            /\ \A z \in all :
                  /\ Cardinality(CommandsFor(reported, z)) <= Len(Expected(z, des, cur))
                  /\ \A k \in CommandsFor(reported, z) :
                        reported[k] = Expected(z, des, cur)[1]
            /\ pc = "done" =>
                  \A z \in all :
                      Cardinality(CommandsFor(reported, z)) = Len(Expected(z, des, cur))

\* a finished run that added a zone, changed one and deleted one
C1_Witness ==
    /\ pc = "done"
    /\ HasVerb(reported, "addzone")
    /\ HasVerb(reported, "changezone")
    /\ HasVerb(reported, "delzone")

\* the add lines of the zone list, as (zone, pattern) pairs
AddLines(file) ==
    {<<SplitAdd(RStrip(file.lines[k])).zone, SplitAdd(RStrip(file.lines[k])).pattern>> :
        k \in {j \in DOMAIN file.lines : SplitAdd(RStrip(file.lines[j])).ok}}

\* the zone list holds one line `add <zone> <pattern>` per desired zone and no other
HoldsDesired(file, des) ==
    /\ AddLines(file) = {<<z, des[z]>> : z \in DOMAIN des}
    /\ Cardinality({j \in DOMAIN file.lines : SplitAdd(RStrip(file.lines[j])).ok})
          = Cardinality(DOMAIN des)

\* C2: a run that follows a run that was not simulated, with the same
\* catalogs and a zone list that holds the desired state, reports no command.
C2_Idempotent ==
    ( /\ pc = "done"
      /\ prev.done
      /\ ~prev.dry_run
      /\ catalog_zones = prev.catalog_zones
      /\ HoldsDesired(zonelist0, Desired(catalog_zones)) )
    => reported = <<>>

\* trailing dot stripped and lower-cased
Normalized(z) == z = Lower(RStripDot(z))

\* C3: every zone name in a member set, in the keys of the current state and
\* in the set of zones seen is normalized, and no run adds one spelling of a
\* zone and deletes another.
C3_Normalized ==
    /\ \A z \in AllZones(zones) \cup AllZones(catalog_zones)
                \cup DOMAIN current_zone_patterns \cup all_new_zones : Normalized(z)
    /\ \A j, k \in DOMAIN reported :
          (reported[j].verb = "addzone" /\ reported[k].verb = "delzone")
              => Lower(reported[j].zone) # Lower(reported[k].zone)

Validated == InLoops \/ pc = "current" \/ raised_by = "ensure_unique_zones"

\* C4: ensure_unique_zones raises exactly when a zone is listed by two
\* catalogs of different origins, and no zone of the loops of main is in two
\* catalogs.
C4_UniqueZones ==
    /\ Validated =>
          ( (raised_by = "ensure_unique_zones" /\ exc = "InvalidConfigurationError")
            <=> DuplicateZone(catalog_zones) )
    /\ InLoops =>
          \A j, k \in DOMAIN catalog_zones :
              j # k => catalog_zones[j].zones \cap catalog_zones[k].zones = {}

\* two catalogs list the same zone and the validator has raised
C4_Witness ==
    /\ raised_by = "ensure_unique_zones"
    /\ Len(catalog_zones) = 2
    /\ catalog_zones[1].zones \cap catalog_zones[2].zones # {}

CatalogDocs(cfg) == {k \in DOMAIN cfg : cfg[k].type = "catalog-zone"}

\* C5: a command is reported or executed only when the keys and every
\* catalog document are parsed without exception and no zone is in two
\* catalogs; a run that aborted has issued none and left the zone list alone.
C5_ValidationFirst ==
    /\ (reported # <<>> \/ executed # <<>>) =>
          /\ exc = "none"
          /\ doc_i > Len(config)
          /\ Len(catalog_zones) = Cardinality(CatalogDocs(config))
          /\ ~DuplicateZone(catalog_zones)
    /\ pc = "aborted" =>
          /\ exc # "none"
          /\ reported = <<>>
          /\ executed = <<>>
          /\ zonelist = zonelist0

\* a run aborted by a catalog format error, with zones on the list it did not touch
C5_Witness ==
    /\ pc = "aborted"
    /\ exc = "CatalogZoneError"
    /\ zonelist.lines # <<>>
    /\ ~dry_run

\* C6: a fetch with a cache returns the cache without a transfer when the
\* master has the cached serial, and transfers when the master's serial is
\* newer: then the zone returned and the cache file are the master's zone.
C6_FetchFresh ==
    \A k \in DOMAIN fetch_log :
        LET e == fetch_log[k] IN
        (e.xfr /\ e.cached # NoFile /\ e.answer # Down) =>
            /\ e.answer.serial = e.cached.serial =>
                  ~e.transferred /\ e.returned = e.cached
            /\ e.answer.serial > e.cached.serial =>
                  e.transferred /\ e.returned = e.answer /\ e.cache_after = e.answer

VersionNodesOf(zone) == {k \in DOMAIN zone.nodes : zone.nodes[k].name = <<"version">>}

\* exactly one TXT record, a quoted decimal integer of the supported set
OneSupportedTxt(v) ==
    Len(v.txt) = 1 /\ get_catz_version(v.txt[1]) \in SUPPORTED_VERSIONS

\* C7: a catalog whose version node does not hold exactly one TXT record of a
\* supported version is rejected with the catalog format error, and a
\* rejected catalog yields no member zone.
C7_VersionGate ==
    catz_out.exc # "unset" =>
        /\ \A k \in VersionNodesOf(catz_in) :
              ~OneSupportedTxt(catz_in.nodes[k]) => catz_out.exc = "CatalogZoneError"
        /\ catz_out.exc # "none" => catz_out.zones = {}

\* the nodes of member zones: "<id>.zones", not a property of one
MemberNodesOf(zone) ==
    {k \in DOMAIN zone.nodes :
        /\ EndsWithZones(zone.nodes[k].name)
        /\ zone.nodes[k].name[1] \notin {"group", "coo", "serial"}}

\* C8: a member node with one PTR record gives its target, dot stripped, to
\* the member set; a member node with any other number of PTR records, none
\* included, makes get_catz_zones raise the catalog format error.
C8_PtrCardinality ==
    catz_out.exc # "unset" =>
        /\ \A k \in MemberNodesOf(catz_in) :
              Len(catz_in.nodes[k].ptr) # 1 => catz_out.exc = "CatalogZoneError"
        /\ catz_out.exc = "none" =>
              catz_out.zones =
                  {RStripDot(catz_in.nodes[k].ptr[1]) : k \in MemberNodesOf(catz_in)}

\* two documents of one type with the same name
DuplicateName(cfg, type) ==
    \E j, k \in DOMAIN cfg :
        j # k /\ cfg[j].type = type /\ cfg[k].type = type /\ cfg[j].name = cfg[k].name

\* C9: with two key documents or two catalog-zone documents of one name,
\* no catalog is fetched (no transfer, no zone file read or written) and
\* parse_config ends by raising InvalidConfigurationError.
C9_DuplicateNamesPreNetwork ==
    (DuplicateName(config, "key") \/ DuplicateName(config, "catalog-zone")) =>
        /\ fetch_log = <<>>
        /\ pc \notin {"parse_keys", "parse_zones"} =>
              /\ pc = "aborted"
              /\ raised_by = "parse_config"
              /\ exc = "InvalidConfigurationError"

\* the plan: the commands of the four cases over desired and current
Plan(des, cur) ==
    {Expected(z, des, cur)[1] :
        z \in {y \in DOMAIN des \cup DOMAIN cur : Expected(y, des, cur) # <<>>}}

\* C10: a simulated run executes nothing and leaves the zone list as it
\* was; when it is done it has reported each command of the plan once.
C10_Simulate ==
    dry_run =>
        /\ executed = <<>>
        /\ zonelist = zonelist0
        /\ pc = "done" =>
              /\ Range(reported) = Plan(Desired(catalog_zones), current_zone_patterns)
              /\ Len(reported) = Cardinality(Range(reported))

\* a simulated run that is done and has reported at least two commands
C10_Witness ==
    /\ dry_run
    /\ pc = "done"
    /\ Len(reported) >= 2
    /\ zonelist.exists

\* the fields of a line of the shape "add <zone> <pattern>", comments apart
AddFields(line) ==
    IF StartsWith(line, <<"#">>)
    THEN [ok |-> FALSE, zone |-> <<>>, pattern |-> <<>>]
    ELSE SplitAdd(RStrip(line))

\* the mapping the zone list stands for: each zone of an add line, in lower
\* case, with the pattern of the last add line that names it
CurrentOf(file) ==
    LET at == {k \in DOMAIN file.lines : AddFields(file.lines[k]).ok}
        last(z) == CHOOSE k \in at :
                      /\ Lower(AddFields(file.lines[k]).zone) = z
                      /\ \A j \in at :
                            Lower(AddFields(file.lines[j]).zone) = z => j <= k
    IN  [z \in {Lower(AddFields(file.lines[k]).zone) : k \in at} |->
            AddFields(file.lines[last(z)]).pattern]

\* C11: the mapping get_current_zones returns is the one the zone list
\* stands for: each add line gives its zone, in lower case, with its
\* pattern, a later line replacing an earlier one; comments and lines of
\* other shapes give nothing, and a missing file gives the empty mapping.
C11_CurrentParse ==
    pc = "zone_list_read" => current_zone_patterns = CurrentOf(zonelist)

\* C12: a catalog generated from an origin and a list of zone names, parsed
\* and interpreted, gives without error exactly the names of the list, each
\* without its trailing dot and in lower case.
C12_RoundTrip ==
    catz_out # CatzUnset =>
        /\ catz_out.exc = "none"
        /\ catz_out.zones = {Lower(RStripDot(gen_zones[k])) : k \in DOMAIN gen_zones}

\* C13: a run the validator aborted has done nothing: it gave no command to
\* the control interface, the zone list is as it was when the run started,
\* and so is every catalog zone file: none created, none with new content.
C13_AbortNoEffect ==
    (pc = "aborted" /\ raised_by = "ensure_unique_zones") =>
        /\ reported = <<>>
        /\ executed = <<>>
        /\ zonelist = zonelist0
        /\ files = files0

\* a line of the log that tells of a failure
TellsFailure(line) == line.level \in {"warning", "error", "critical"}

\* C14: in a run that is not simulated every operation main decides on is
\* given to the control interface exactly once, none a second time, and a
\* run that is done with a failed invocation shows it: by a log line that
\* tells of the failure or by an exit status other than 0.
C14_FailureReported ==
    (~dry_run /\ pc = "done") =>
        /\ executed = reported
        /\ Len(executed) = Cardinality(Range(executed))
        /\ Len(os_status) = Len(executed)
        /\ (\E k \in DOMAIN os_status : os_status[k] = "failed") =>
              \/ ExitStatus(pc, exc) # "0"
              \/ \E k \in DOMAIN ControlLog(reported, dry_run) :
                    TellsFailure(ControlLog(reported, dry_run)[k])

\* two commands for one zone that conflict: two addzone, or a delzone or
\* changezone of one run and a command of the other
Conflicting(a, b) ==
    /\ Lower(a.zone) = Lower(b.zone)
    /\ \/ a.verb = "addzone" /\ b.verb = "addzone"
       \/ a.verb \in {"delzone", "changezone"}
       \/ b.verb \in {"delzone", "changezone"}

\* the two runs have issued conflicting commands
Conflict ==
    \E j \in DOMAIN procs[1].reported, k \in DOMAIN procs[2].reported :
        Conflicting(procs[1].reported[j], procs[2].reported[k])

\* C15: runs that are serialized, each started once the other is over and
\* its commands applied, issue no conflicting commands for a zone; two
\* runs issue them only when they overlap.
C15_SerializedNoConflict == Conflict => overlap

====
